---------------------------- MODULE Spec2Model ----------------------------
(***************************************************************************)
(* A model of DataFaker's schema/generation engine:                        *)
(*   data_engine/datatypes.py      the Datatype registry and its variants  *)
(*   data_engine/column_schema.py  ColumnSchema (construction, generate)   *)
(*   data_engine/table_schema.py   TableSchema (add/remove/generate/       *)
(*                                 from_dataframe)                         *)
(*                                                                         *)
(* Python values are tagged records: None, NaN, int, float, str, list.     *)
(* Reals in [0,1] (completeness, random.random()) are counted in units of  *)
(* 1/Resolution, so 1.0 is Resolution units; order and equality of the     *)
(* modelled reals are those of the unit counts.                            *)
(***************************************************************************)
EXTENDS Integers, Sequences, FiniteSets, TLC

VARIABLES
    registry,   \* Datatype._registry: tag -> variant class
    column,     \* the ColumnSchema the last ColumnSchema(...) call returned
    columns,    \* TableSchema.columns of the table schema in use
    selected,   \* .columns of the schema select_columns last returned, from
                \* the table schema in use; None before any was returned
    shared,     \* whether that schema's list and the list of the table schema
                \* in use are one list object
    config,     \* the tabular configuration the application holds
    result      \* the outcome of the last call: what it returned or raised

vars == <<registry, column, columns, selected, shared, config, result>>

----------------------------------------------------------------------------
(* Bounds of the model *)

\* random.random() and completeness are counted in 1/Resolution
Resolution == 4
\* bounds handed to IntegerType/FloatType are multiples of Stride ...
Stride == 60
\* ... from -MaxK*Stride to MaxK*Stride
MaxK == 2
\* lengths handed to StringType run from -1 to MaxLength
MaxLength == 2
\* a table schema holds at most MaxCols columns
MaxCols == 2
\* generate(num_rows) is called with 0..MaxRows
MaxRows == 2
\* of a random draw's outcomes, the MaxDraw lowest and highest are followed
MaxDraw == 2

----------------------------------------------------------------------------
(* Python values *)

None == [kind |-> "None"]
NaN == [kind |-> "NaN"]
IntV(i) == [kind |-> "int", v |-> i]
FloatV(u) == [kind |-> "float", v |-> u]
\* a str: a column name or a label ...
StrV(s) == [kind |-> "str", s |-> s]
\* ... or a type tag, held as its characters
TagV(t) == [kind |-> "str", chars |-> t]
ListV(l) == [kind |-> "list", items |-> l]

Range(s) == {s[i] : i \in DOMAIN s}

\* a keyword argument, or the parameter's default when the caller gave none
Arg(kwargs, k, default) == IF k \in DOMAIN kwargs THEN kwargs[k] ELSE default

\* what a call did: the value it returned, or the exception it raised
Returned(v) == [status |-> "ok", value |-> v]
Raised(e) == [status |-> e, value |-> None]

Max(a, b) == IF a >= b THEN a ELSE b
Min(a, b) == IF a <= b THEN a ELSE b

----------------------------------------------------------------------------
(* Type tags are character sequences, so that str.lower() is computed. *)

UpperCase == <<"A","B","C","D","E","F","G","H","I","J","K","L","M",
               "N","O","P","Q","R","S","T","U","V","W","X","Y","Z">>
LowerCase == <<"a","b","c","d","e","f","g","h","i","j","k","l","m",
               "n","o","p","q","r","s","t","u","v","w","x","y","z">>

\* each upper-case letter's lower-case letter
LowerOf ==
    [c \in {UpperCase[i] : i \in DOMAIN UpperCase} |->
        LowerCase[CHOOSE i \in DOMAIN UpperCase : UpperCase[i] = c]]

LowerChar(c) == IF c \in DOMAIN LowerOf THEN LowerOf[c] ELSE c

\* str.lower()
lower(s) == [i \in DOMAIN s |-> LowerChar(s[i])]

Tag_string == <<"s","t","r","i","n","g">>
Tag_int == <<"i","n","t">>
Tag_integer == <<"i","n","t","e","g","e","r">>
Tag_float == <<"f","l","o","a","t">>
Tag_category == <<"c","a","t","e","g","o","r","y">>
Tag_boolean == <<"b","o","o","l","e","a","n">>

\* Datatype._registry once datatypes.py is imported: the @Datatype.register
\* decorators have stored each tag exactly as written
ImportedRegistry ==
    { <<Tag_string, "StringType">>, <<Tag_int, "IntegerType">>,
      <<Tag_integer, "IntegerType">>, <<Tag_float, "FloatType">>,
      <<Tag_category, "CategoryType">>, <<Tag_boolean, "BooleanType">> }

\* Datatype.register(*names)(subclass): _registry[name] = subclass for each
\* name, the name kept as written
register(reg, names, subclass) ==
    { e \in reg : e[1] \notin names } \cup { <<name, subclass>> : name \in names }

\* Datatype.get_class(name): the class stored under exactly that key
get_class(reg, name) ==
    IF \E e \in reg : e[1] = name
    THEN Returned((CHOOSE e \in reg : e[1] = name)[2])
    ELSE Raised("ValueError")

----------------------------------------------------------------------------
(* The Type variants' constructors *)

DefaultLength == 10

\* StringType.__init__(length=10)
StringType(kwargs) ==
    LET given == Arg(kwargs, "length", IntV(DefaultLength))
        length == IF given = None THEN IntV(DefaultLength) ELSE given
    IN  IF length.v <= 0
        THEN Raised("ValueError")
        ELSE Returned([kind |-> "Datatype", cls |-> "StringType", length |-> length.v])

DefaultMin == 0
DefaultMax == 100
Window == 100

\* a faulty variant, for contrast: the window is laid from the given bound, with no clamp at the
\* default bounds
IntegerDefaults_Unclamped(min_value, max_value) ==
    IF min_value = None /\ max_value = None
    THEN <<DefaultMin, DefaultMax>>
    ELSE IF max_value = None /\ min_value # None
    THEN <<min_value.v, Window + min_value.v>>
    ELSE IF min_value = None /\ max_value # None
    THEN <<max_value.v - Window, max_value.v>>
    ELSE <<min_value.v, max_value.v>>

\* IntegerType.__init__: the defaulting of a bound that is None
IntegerDefaults(min_value, max_value) ==
    IF min_value = None /\ max_value = None
    THEN <<DefaultMin, DefaultMax>>
    ELSE IF max_value = None /\ min_value # None
    THEN <<min_value.v, Max(Window + min_value.v, DefaultMax)>>
    ELSE IF min_value = None /\ max_value # None
    THEN <<Min(max_value.v - Window, DefaultMin), max_value.v>>
    ELSE <<min_value.v, max_value.v>>

\* a faulty variant, for contrast: the check reads min_value > max_value
IntegerBoundsRejected_NonStrict(mn, mx) == mn > mx

\* IntegerType.__init__: the test that raises
IntegerBoundsRejected(mn, mx) == mn >= mx

\* IntegerType.__init__(min_value=0, max_value=100); int() of a whole number
\* is that number
IntegerType(kwargs) ==
    LET b == IntegerDefaults(Arg(kwargs, "min_value", IntV(DefaultMin)),
                             Arg(kwargs, "max_value", IntV(DefaultMax)))
    IN  IF IntegerBoundsRejected(b[1], b[2])
        THEN Raised("ValueError")
        ELSE Returned([kind |-> "Datatype", cls |-> "IntegerType",
                      min_value |-> b[1], max_value |-> b[2]])

\* FloatType.__init__(min_value=0.0, max_value=100.0): the same defaulting,
\* and no test of the bounds
FloatType(kwargs) ==
    LET b == IntegerDefaults(Arg(kwargs, "min_value", IntV(DefaultMin)),
                             Arg(kwargs, "max_value", IntV(DefaultMax)))
    IN  Returned([kind |-> "Datatype", cls |-> "FloatType",
                  min_value |-> b[1], max_value |-> b[2]])

DefaultCategories == ListV(<<"A", "B", "C">>)

\* a faulty variant, for contrast: the parameter has no default, a call without it raises
CategoryDefault_Required(kwargs) == Arg(kwargs, "categories", None)

\* CategoryType.__init__'s parameter: categories=["A", "B", "C"]
CategoryDefault(kwargs) == Arg(kwargs, "categories", DefaultCategories)

\* CategoryType.__init__; list(set(categories)) keeps one of each label in
\* no particular order: the set of the labels
CategoryType(kwargs) ==
    LET categories == CategoryDefault(kwargs)
    IN  IF categories = None \/ Len(categories.items) = 0
        THEN Raised("ValueError")
        ELSE Returned([kind |-> "Datatype", cls |-> "CategoryType",
                      categories |-> Range(categories.items)])

\* BooleanType.__init__()
BooleanType(kwargs) == Returned([kind |-> "Datatype", cls |-> "BooleanType"])

\* datatype_class(**kwargs)
Construct(cls, kwargs) ==
    CASE cls = "StringType" -> StringType(kwargs)
      [] cls = "IntegerType" -> IntegerType(kwargs)
      [] cls = "FloatType" -> FloatType(kwargs)
      [] cls = "CategoryType" -> CategoryType(kwargs)
      [] cls = "BooleanType" -> BooleanType(kwargs)

\* inspect.signature(datatype_class.__init__).parameters
valid_args(cls) ==
    CASE cls = "StringType" -> {"self", "length"}
      [] cls = "IntegerType" -> {"self", "min_value", "max_value"}
      [] cls = "FloatType" -> {"self", "min_value", "max_value"}
      [] cls = "CategoryType" -> {"self", "categories"}
      [] cls = "BooleanType" -> {"self"}

----------------------------------------------------------------------------
(* The arguments the model hands to the constructors *)

\* every way of giving some of the parameters `params` values from `values`
KwargsOver(params, values) ==
    UNION { [ps -> values] : ps \in SUBSET params }

Bounds == { IntV(k * Stride) : k \in -MaxK..MaxK } \cup { IntV(-1), IntV(1) }
Lengths == { IntV(n) : n \in -1..MaxLength }
LabelLists == { ListV(<<>>), ListV(<<"USA">>), ListV(<<"USA", "USA", "Canada">>) }

----------------------------------------------------------------------------
(* Direct construction of a Type variant *)

\* the record of a call: what was called, with what, and what came of it
Done(op, args, r) == [op |-> op, args |-> args, status |-> r.status, value |-> r.value]

NewStringType ==
    \E kw \in KwargsOver({"length"}, Lengths \cup {None}) :
        /\ result' = Done("StringType", kw, StringType(kw))
        /\ UNCHANGED <<registry, column, columns, selected, shared, config>>

NewIntegerType ==
    \E kw \in KwargsOver({"min_value", "max_value"}, Bounds \cup {None}) :
        /\ result' = Done("IntegerType", kw, IntegerType(kw))
        /\ UNCHANGED <<registry, column, columns, selected, shared, config>>

NewFloatType ==
    \E kw \in KwargsOver({"min_value", "max_value"}, Bounds \cup {None}) :
        /\ result' = Done("FloatType", kw, FloatType(kw))
        /\ UNCHANGED <<registry, column, columns, selected, shared, config>>

NewCategoryType ==
    \E kw \in KwargsOver({"categories"}, LabelLists \cup {None}) :
        /\ result' = Done("CategoryType", kw, CategoryType(kw))
        /\ UNCHANGED <<registry, column, columns, selected, shared, config>>

NewBooleanType ==
    /\ result' = Done("BooleanType", <<>>, BooleanType(<<>>))
    /\ UNCHANGED <<registry, column, columns, selected, shared, config>>

----------------------------------------------------------------------------
(* The Type variants' generation rules.  Each is the set of the values one *)
(* call may return.                                                        *)

\* of the n outcomes 0..n-1 of a uniform draw the model follows the MaxDraw
\* lowest and the MaxDraw highest
randbelow(n) == { k \in 0..(n - 1) : k < MaxDraw \/ k >= n - MaxDraw }

\* a faulty variant, for contrast: the upper bound is one too far, as randrange(a, b + 2) is
randint_OffByOne(a, b) == { a + k : k \in randbelow(b - a + 2) }

\* random.randint(a, b): any integer of a..b, both ends included
randint(a, b) == { a + k : k \in randbelow(b - a + 1) }

\* round(random.uniform(a, b), 2), a > b allowed: any point between the two
\* bounds; the model follows the whole numbers among them
uniform(a, b) == { Min(a, b) + k : k \in randbelow(Max(a, b) - Min(a, b) + 1) }

\* ''.join(random.choices(letters + digits, k=length)): a text of `length`
\* characters; which characters is not modelled
Text(length) == [kind |-> "str", len |-> length]

Bool(b) == [kind |-> "bool", b |-> b]

\* Datatype.generator_rule() of each variant
generator_rule(dt) ==
    CASE dt.cls = "StringType" -> { Text(dt.length) }
      [] dt.cls = "IntegerType" ->
            { IntV(v) : v \in randint(dt.min_value, dt.max_value) }
      [] dt.cls = "FloatType" ->
            { FloatV(v) : v \in uniform(dt.min_value, dt.max_value) }
      [] dt.cls = "CategoryType" ->
            IF dt.categories # {} THEN { StrV(c) : c \in dt.categories } ELSE { None }
      [] dt.cls = "BooleanType" -> { Bool(TRUE), Bool(FALSE) }

----------------------------------------------------------------------------
(* ColumnSchema *)

\* ColumnSchema.__init__'s own parameters; every other keyword is one of
\* **datatype_kwargs
OwnParams == {"name", "datatype", "completeness", "generator_rule"}

\* pd.isna(x) of a scalar
isna(x) == x = None \/ x = NaN

\* a faulty variant, for contrast: a missing completeness becomes 0.0
NormalizeCompleteness_Zero(given) ==
    IF given = None \/ isna(given) THEN FloatV(0) ELSE given

\* ColumnSchema.__init__: None or NaN completeness becomes 1.0
NormalizeCompleteness(given) ==
    IF given = None \/ isna(given) THEN FloatV(Resolution) ELSE given

\* ColumnSchema.__init__: the Type variant of the column
MakeDatatype(reg, dt, datatype_kwargs) ==
    IF dt = None
    THEN StringType(<<>>)
    ELSE IF dt.kind = "str"
    THEN LET c == get_class(reg, lower(dt.chars))
         IN  IF c.status # "ok"
             THEN c
             ELSE Construct(c.value,
                    [k \in DOMAIN datatype_kwargs \cap valid_args(c.value)
                        |-> datatype_kwargs[k]])
    ELSE IF dt.kind = "Datatype"
    THEN Returned(dt)
    ELSE Raised("TypeError")

\* ColumnSchema(**a): a gives `name` and any of the other parameters
ColumnSchema(reg, a) ==
    LET made == MakeDatatype(reg, Arg(a, "datatype", None),
                             [k \in DOMAIN a \ OwnParams |-> a[k]])
        completeness == NormalizeCompleteness(Arg(a, "completeness", FloatV(Resolution)))
    IN  IF made.status # "ok"
        THEN made
        ELSE Returned([kind |-> "ColumnSchema",
                       name |-> a.name,
                       datatype |-> made.value,
                       completeness |-> completeness.v,
                       generator_rule |-> Arg(a, "generator_rule", None)])

\* a faulty variant, for contrast: random.random() >= self.completeness
provide_null_value_AtLeast(col, sample) == sample >= col.completeness

\* ColumnSchema.generate: random.random() > self.completeness
provide_null_value(col, sample) == sample > col.completeness

\* ColumnSchema.generate: self.generator_rule is not None
UseOverride(col) == col.generator_rule # None

\* ColumnSchema.generate() when random.random() returns `sample`: the
\* outcomes it may have, each with the path taken and the rules invoked
generate(col, sample) ==
    IF provide_null_value(col, sample) /\ col.completeness < Resolution
    THEN { [path |-> "null", value |-> None, calls |-> <<"random">>] }
    ELSE IF UseOverride(col)
    THEN { [path |-> "override", value |-> col.generator_rule.returns,
            calls |-> <<"random", "override">>] }
    ELSE { [path |-> "datatype", value |-> v, calls |-> <<"random", "datatype">>] :
              v \in generator_rule(col.datatype) }

----------------------------------------------------------------------------
(* The ColumnSchema(...) calls the model makes *)

\* a caller's override rule, known by what it returns
Callable(v) == [kind |-> "callable", returns |-> v]
Rules == { Callable(StrV("fake")), Callable(None) }

Tag_Integer == <<"I","n","t","e","g","e","r">>
Tag_Category == <<"C","a","t","e","g","o","r","y">>
Tag_date == <<"d","a","t","e">>

\* completeness as a caller may give it: -1/Resolution .. 1 + 1/Resolution,
\* None, NaN
Completenesses == { FloatV(u) : u \in -1..(Resolution + 1) } \cup { None, NaN }

\* two functions with disjoint domains, as one
Merge(f, g) == [k \in DOMAIN f \cup DOMAIN g |-> IF k \in DOMAIN f THEN f[k] ELSE g[k]]

ColumnBounds == { None, IntV(-Stride), IntV(1), IntV(3) }

\* datatype and **datatype_kwargs
TypeArgs ==
    { <<>>, [datatype |-> None], [datatype |-> IntV(5)],
      [datatype |-> TagV(Tag_date)], [datatype |-> TagV(Tag_string)],
      [datatype |-> TagV(Tag_boolean)], [datatype |-> TagV(Tag_float)],
      [datatype |-> IntegerType(<<>>).value],
      [datatype |-> TagV(Tag_string), length |-> IntV(MaxLength), min_value |-> IntV(1)] }
    \cup { Merge([datatype |-> TagV(t)], kw) :
             t \in {Tag_int, Tag_Integer},
             kw \in KwargsOver({"min_value", "max_value"}, ColumnBounds) }
    \cup { Merge([datatype |-> TagV(t)], kw) :
             t \in {Tag_category, Tag_Category},
             kw \in KwargsOver({"categories"}, LabelLists \cup {None}) }

\* completeness and generator_rule
NullArgs ==
    { Merge(c, g) :
        c \in KwargsOver({"completeness"}, Completenesses),
        g \in KwargsOver({"generator_rule"}, Rules \cup {None}) }

FewTypeArgs ==
    { <<>>,
      \* as from_dataframe calls it
      [datatype |-> TagV(Tag_Integer), length |-> None, domain |-> None,
       min_value |-> IntV(1), max_value |-> IntV(3)],
      [datatype |-> TagV(Tag_category), categories |-> ListV(<<"USA", "USA", "Canada">>)] }

ColumnCalls ==
    { Merge([name |-> StrV("Age")], t) : t \in TypeArgs }
    \cup { Merge([name |-> StrV("Age")], Merge(t, n)) : t \in FewTypeArgs, n \in NullArgs }

NewColumnSchema ==
    \E a \in ColumnCalls :
        /\ column' = ColumnSchema(registry, a).value
        /\ result' = Done("ColumnSchema", a, ColumnSchema(registry, a))
        /\ UNCHANGED <<registry, columns, selected, shared, config>>

\* ColumnSchema(name, "category", ...), as CategoryType may be constructed
NewCategoryColumn ==
    \E t \in {Tag_category, Tag_Category},
       kw \in KwargsOver({"categories"}, LabelLists \cup {None}) :
        LET a == Merge([name |-> StrV("Country"), datatype |-> TagV(t)], kw)
        IN  /\ column' = ColumnSchema(registry, a).value
            /\ result' = Done("ColumnSchema", a, ColumnSchema(registry, a))
            /\ UNCHANGED <<registry, columns, selected, shared, config>>

ColumnGenerate ==
    /\ column # None
    /\ \E sample \in 0..(Resolution - 1) :
         \E o \in generate(column, sample) :
            result' = [op |-> "ColumnSchema.generate", args |-> sample, status |-> "ok",
                       value |-> o.value, path |-> o.path, calls |-> o.calls]
    /\ UNCHANGED <<registry, column, columns, selected, shared, config>>

----------------------------------------------------------------------------
(* The calls the model makes on the registry *)

Tag_Date == <<"D","a","t","e">>
Tag_INT == <<"I","N","T">>

\* the tags a caller registers a variant under
NewTags == { Tag_date, Tag_Date, Tag_INT }

\* the tags a caller looks up
LookupTags == NewTags \cup { Tag_int, Tag_Integer, Tag_integer, Tag_string }

\* @Datatype.register(*names) on a variant class
Register ==
    \E names \in (SUBSET NewTags) \ {{}}, subclass \in {"StringType", "BooleanType"} :
        /\ registry' = register(registry, names, subclass)
        /\ result' = Done("Datatype.register", names, Returned(StrV(subclass)))
        /\ UNCHANGED <<column, columns, selected, shared, config>>

\* Datatype.get_class(name)
GetClass ==
    \E name \in LookupTags :
        LET r == get_class(registry, name)
        IN  /\ result' = Done("Datatype.get_class", TagV(name),
                              IF r.status = "ok" THEN Returned(StrV(r.value)) ELSE r)
            /\ UNCHANGED <<registry, column, columns, selected, shared, config>>

\* ColumnSchema(name, tag)
NewTaggedColumn ==
    \E name \in LookupTags :
        LET a == [name |-> StrV("Age"), datatype |-> TagV(name)]
        IN  /\ column' = ColumnSchema(registry, a).value
            /\ result' = Done("ColumnSchema", a, ColumnSchema(registry, a))
            /\ UNCHANGED <<registry, columns, selected, shared, config>>

----------------------------------------------------------------------------
(* TableSchema.  self.columns is None or a list of ColumnSchema objects.   *)

\* [col for col in seq if col.name != column_name]
RECURSIVE WithoutName(_, _)
WithoutName(seq, column_name) ==
    IF seq = <<>> THEN <<>>
    ELSE IF Head(seq).name # column_name
    THEN <<Head(seq)>> \o WithoutName(Tail(seq), column_name)
    ELSE WithoutName(Tail(seq), column_name)

\* TableSchema.generate: self.columns is None
NoColumnsDefined(cols) == cols = None

\* what one cell of a column may hold: c.generate() for any random sample
Cell(c) == UNION { { o.value : o \in generate(c, sample) } :
                     sample \in 0..(Resolution - 1) }

\* [c.generate() for c in cols]: every row the columns may yield
RECURSIVE Rows(_)
Rows(cols) ==
    IF cols = <<>> THEN { <<>> }
    ELSE { <<v>> \o r : v \in Cell(Head(cols)), r \in Rows(Tail(cols)) }

\* the while loop of TableSchema.generate: every `data` that count rows,
\* each appended in turn, may make
RECURSIVE Data(_, _)
Data(rows, count) ==
    IF count <= 0 THEN { <<>> }
    ELSE { Append(d, r) : d \in Data(rows, count - 1), r \in rows }

\* a faulty variant, for contrast: the loop runs while count <= num_rows
TableGenerate_OneMore(cols, num_rows) ==
    IF NoColumnsDefined(cols)
    THEN { Raised("ValueError") }
    ELSE { Returned([kind |-> "DataFrame",
                     columns |-> [i \in DOMAIN cols.items |-> cols.items[i].name],
                     data |-> data]) :
             data \in Data(Rows(cols.items), num_rows + 1) }

\* TableSchema.generate(num_rows): the tables it may return, pd.DataFrame(data,
\* columns=col_names), or the error it raises
TableGenerate(cols, num_rows) ==
    IF NoColumnsDefined(cols)
    THEN { Raised("ValueError") }
    ELSE { Returned([kind |-> "DataFrame",
                     columns |-> [i \in DOMAIN cols.items |-> cols.items[i].name],
                     data |-> data]) :
             data \in Data(Rows(cols.items), num_rows) }

\* [c.generate() for c in cols]: the columns whose generate() the
\* comprehension invokes, by position in self.columns, in the order invoked
RECURSIVE InvokedInRow(_, _)
InvokedInRow(cols, first) ==
    IF cols = <<>> THEN <<>>
    ELSE <<first>> \o InvokedInRow(Tail(cols), first + 1)

\* the while loop of TableSchema.generate: the generate() invocations of
\* each row it appends, in turn
RECURSIVE Invoked(_, _)
Invoked(cols, count) ==
    IF count <= 0 THEN <<>>
    ELSE Append(Invoked(cols, count - 1), InvokedInRow(cols, 1))

\* a faulty variant, for contrast: the column is put at the front
add_column_Prepend(reg, cols, col) ==
    LET c == IF col.kind = "str" THEN ColumnSchema(reg, [name |-> col]).value ELSE col
        list == IF cols = None THEN <<>> ELSE cols.items
    IN  ListV(<<c>> \o list)

\* TableSchema.add_column(column): self.columns afterwards
add_column(reg, cols, col) ==
    LET c == IF col.kind = "str" THEN ColumnSchema(reg, [name |-> col]).value ELSE col
        list == IF cols = None THEN <<>> ELSE cols.items
    IN  ListV(Append(list, c))

\* TableSchema.remove_column(column_name): self.columns afterwards
remove_column(cols, column_name) ==
    IF cols # None
    THEN ListV(WithoutName(cols.items, column_name))
    ELSE cols

\* [col for col in seq if col.name in column_names]
RECURSIVE WithNameIn(_, _)
WithNameIn(seq, column_names) ==
    IF seq = <<>> THEN <<>>
    ELSE IF Head(seq).name \in column_names
    THEN <<Head(seq)>> \o WithNameIn(Tail(seq), column_names)
    ELSE WithNameIn(Tail(seq), column_names)

\* a faulty variant, for contrast: only the first column of a matching name
\* is kept
select_columns_FirstOnly(cols, column_names) ==
    IF cols = None
    THEN Raised("TypeError")
    ELSE LET kept == WithNameIn(cols.items, column_names)
         IN  Returned(ListV(IF kept = <<>> THEN <<>> ELSE <<Head(kept)>>))

\* TableSchema.select_columns(column_names): .columns of the TableSchema it
\* returns.  With self.columns None, `cols = []` is followed by the
\* comprehension over self.columns all the same, and iterating None raises
\* TypeError.
select_columns(cols, column_names) ==
    IF cols = None
    THEN Raised("TypeError")
    ELSE Returned(ListV(WithNameIn(cols.items, column_names)))

----------------------------------------------------------------------------
(* The calls the model makes on a table schema *)

ColumnNames == { StrV("Age"), StrV("Email") }

\* ColumnSchema objects a caller adds: Age, an integer of 18..19, and Email, a
\* text that is null three times in four
SomeColumns ==
    { ColumnSchema(ImportedRegistry,
                   [name |-> StrV("Age"), datatype |-> TagV(Tag_int),
                    min_value |-> IntV(18), max_value |-> IntV(19)]).value,
      ColumnSchema(ImportedRegistry,
                   [name |-> StrV("Email"), datatype |-> TagV(Tag_string),
                    completeness |-> FloatV(1)]).value }

\* every list of at most n of the columns cs
RECURSIVE ListsUpTo(_, _)
ListsUpTo(cs, n) ==
    IF n = 0 THEN { <<>> }
    ELSE ListsUpTo(cs, n - 1)
         \cup { Append(l, c) : l \in { x \in ListsUpTo(cs, n - 1) : Len(x) = n - 1 },
                                c \in cs }

\* TableSchema(), TableSchema([]), TableSchema([c, ...])
NewTableSchema ==
    \E arg \in {None} \cup { ListV(l) : l \in ListsUpTo(SomeColumns, MaxCols) } :
        /\ columns' = arg
        /\ selected' = None
        /\ shared' = FALSE
        /\ result' = Done("TableSchema", arg, Returned(None))
        /\ UNCHANGED <<registry, column, config>>

AddColumn ==
    /\ IF columns = None THEN TRUE ELSE Len(columns.items) < MaxCols
    /\ \E col \in SomeColumns \cup ColumnNames :
        /\ columns' = add_column(registry, columns, col)
        \* self.columns.append(column) changes the list object itself
        /\ selected' = IF shared THEN columns' ELSE selected
        /\ result' = Done("TableSchema.add_column", col, Returned(None))
    /\ UNCHANGED <<registry, column, shared, config>>

RemoveColumn ==
    \E column_name \in ColumnNames \cup { StrV("Name") } :
        /\ columns' = remove_column(columns, column_name)
        \* self.columns is bound to a list the comprehension builds
        /\ shared' = (shared /\ columns = None)
        /\ result' = Done("TableSchema.remove_column", column_name, Returned(None))
        /\ UNCHANGED <<registry, column, selected, config>>

\* the lists of names a caller selects by
NameLists ==
    { {}, {StrV("Age")}, {StrV("Email"), StrV("Name")}, {StrV("Age"), StrV("Email")} }

\* selected = table_schema.select_columns(column_names)
SelectColumns ==
    \E column_names \in NameLists :
        LET r == select_columns(columns, column_names)
        IN  /\ selected' = IF r.status = "ok" THEN r.value ELSE selected
            \* cols is a list the comprehension builds, never self.columns
            /\ shared' = IF r.status = "ok" THEN FALSE ELSE shared
            /\ result' = Done("TableSchema.select_columns", column_names, r)
            /\ UNCHANGED <<registry, column, columns, config>>

\* selected.add_column(column)
SelectedAddColumn ==
    /\ selected # None
    /\ Len(selected.items) < MaxCols
    /\ \E col \in ColumnNames :
        /\ selected' = add_column(registry, selected, col)
        \* self.columns.append(column) changes the list object itself
        /\ columns' = IF shared THEN selected' ELSE columns
        /\ result' = Done("selected.add_column", col, Returned(None))
    /\ UNCHANGED <<registry, column, shared, config>>

\* selected.remove_column(column_name)
SelectedRemoveColumn ==
    /\ selected # None
    /\ \E column_name \in ColumnNames :
        /\ selected' = remove_column(selected, column_name)
        \* self.columns is bound to a list the comprehension builds
        /\ shared' = FALSE
        /\ result' = Done("selected.remove_column", column_name, Returned(None))
    /\ UNCHANGED <<registry, column, columns, config>>

Generate ==
    \E num_rows \in 0..MaxRows :
        \E r \in TableGenerate(columns, num_rows) :
            /\ result' = [op |-> "TableSchema.generate", args |-> num_rows,
                          status |-> r.status, value |-> r.value,
                          calls |-> IF NoColumnsDefined(columns) THEN <<>>
                                    ELSE Invoked(columns.items, num_rows)]
            /\ UNCHANGED <<registry, column, columns, selected, shared, config>>

----------------------------------------------------------------------------
(* TableSchema.from_dataframe.  A DataFrame is its column labels (fields)  *)
(* and its rows, each a cell per label; a missing cell is NaN.             *)

\* the labels from_dataframe reads with row[...]
RowKeys == {"name", "datatype", "length", "domain", "max", "min", "completeness"}

\* row[k] of a dict: the cell, or KeyError when the frame has no such label
RowGet(row, k) == IF k \in DOMAIN row THEN Returned(row[k]) ELSE Raised("KeyError")

\* `v if pd.notna(v) else None`: pd.notna of a list is an array, and the
\* truth value of an array of two or more elements raises ValueError
NotnaOrNone(v) ==
    IF v.kind = "list" /\ Len(v.items) > 1 THEN Raised("ValueError")
    ELSE IF isna(v) THEN Returned(None)
    ELSE Returned(v)

\* from_dataframe hands the domain cell on under the keyword `domain`
DomainKeyword == "domain"

\* the body of from_dataframe's loop for one row r of the frame: the
\* ColumnSchema made of it, or what was raised
ColumnOfRow(reg, r) ==
    IF \E k \in DOMAIN r : NotnaOrNone(r[k]).status # "ok"
    THEN Raised("ValueError")
    ELSE LET row == [k \in DOMAIN r |-> NotnaOrNone(r[k]).value]
         IN  IF \E k \in RowKeys : RowGet(row, k).status # "ok"
             THEN Raised("KeyError")
             ELSE ColumnSchema(reg,
                    Merge([name |-> RowGet(row, "name").value,
                           datatype |-> RowGet(row, "datatype").value,
                           length |-> RowGet(row, "length").value,
                           max_value |-> RowGet(row, "max").value,
                           min_value |-> RowGet(row, "min").value,
                           completeness |-> RowGet(row, "completeness").value],
                          [k \in {DomainKeyword} |-> RowGet(row, "domain").value]))

\* TableSchema.from_dataframe(df): the columns of the schema it returns, or
\* what the first row that fails raised
from_dataframe(reg, df) ==
    LET made == [i \in DOMAIN df.rows |-> ColumnOfRow(reg, df.rows[i])]
        failed == { i \in DOMAIN made : made[i].status # "ok" }
    IN  IF failed # {}
        THEN made[CHOOSE i \in failed : \A j \in failed : i <= j]
        ELSE Returned(ListV([i \in DOMAIN made |-> made[i].value]))

----------------------------------------------------------------------------
(* The tabular configurations the model reads *)

\* a record of the configuration: its cells under the labels `fields`, the
\* cells it does not give being missing (NaN)
Record(fields, given) == [k \in fields |-> IF k \in DOMAIN given THEN given[k] ELSE NaN]

ConfigRecords ==
    { [name |-> StrV("Age"), datatype |-> TagV(Tag_integer),
       min |-> IntV(18), max |-> IntV(19), completeness |-> FloatV(Resolution)],
      [name |-> StrV("Email"), datatype |-> TagV(Tag_string), completeness |-> FloatV(1)],
      [name |-> StrV("ID"), datatype |-> TagV(Tag_Integer)],
      [name |-> StrV("Country"), datatype |-> TagV(Tag_category), domain |-> StrV("USA")],
      [name |-> StrV("Country"), datatype |-> TagV(Tag_Category),
       domain |-> ListV(<<"USA", "USA", "Canada">>)],
      [name |-> StrV("Size"), datatype |-> TagV(Tag_category)] }

\* the labels a configuration may carry: all of them, or name and datatype
\* with only some of the optional ones
FieldSets ==
    { RowKeys,
      RowKeys \ {"length"},
      {"name", "datatype", "min", "max", "completeness"},
      {"name", "datatype", "domain", "completeness"},
      {"name", "datatype"} }

\* a configuration gives a record's cells only under the labels it carries
Fits(fields, rec) == DOMAIN rec \subseteq fields

\* the configurations of no, one or two of the records
RecordLists ==
    { <<>> } \cup { <<r>> : r \in ConfigRecords }
             \cup { <<r1, r2>> : r1 \in ConfigRecords, r2 \in ConfigRecords }

DataFrames ==
    UNION { { [fields |-> f, rows |-> [i \in DOMAIN recs |-> Record(f, recs[i])]] :
                recs \in { rs \in RecordLists : \A i \in DOMAIN rs : Fits(f, rs[i]) } } :
            f \in FieldSets }

\* table_schema = TableSchema.from_dataframe(updated_df), as the application
\* does with the configuration it holds
FromDataframe ==
    \E r \in { from_dataframe(registry, config) } :
        /\ columns' = IF r.status = "ok" THEN r.value ELSE columns
        /\ selected' = IF r.status = "ok" THEN None ELSE selected
        /\ shared' = IF r.status = "ok" THEN FALSE ELSE shared
        /\ result' = Done("TableSchema.from_dataframe", <<>>, r)
        /\ UNCHANGED <<registry, column, config>>

----------------------------------------------------------------------------

\* get_initial_table(): the configuration the application starts with
InitialTable ==
    [fields |-> RowKeys,
     rows |-> << Record(RowKeys, [name |-> StrV("ID"), datatype |-> TagV(Tag_Integer),
                                  completeness |-> FloatV(Resolution)]) >>]

Init ==
    /\ registry = ImportedRegistry
    /\ column = None
    /\ columns = None
    /\ selected = None
    /\ shared = FALSE
    /\ config = InitialTable
    /\ result = [op |-> "import", args |-> <<>>, status |-> "ok", value |-> None]

NextType ==
    \/ NewStringType
    \/ NewIntegerType
    \/ NewFloatType
    \/ NewCategoryType
    \/ NewBooleanType
    \/ NewCategoryColumn

SpecType == Init /\ [][NextType]_vars

NextColumn ==
    \/ NewColumnSchema
    \/ ColumnGenerate

SpecColumn == Init /\ [][NextColumn]_vars

NextTable ==
    \/ NewTableSchema
    \/ AddColumn
    \/ RemoveColumn
    \/ Generate

SpecTable == Init /\ [][NextTable]_vars

\* the registry, lookups in it and the columns made by tag
NextRegistry ==
    \/ Register
    \/ GetClass
    \/ NewTaggedColumn
    \/ ColumnGenerate

SpecRegistry == Init /\ [][NextRegistry]_vars

\* a table schema in use and the schema selected from it
NextSelect ==
    \/ NewTableSchema
    \/ AddColumn
    \/ RemoveColumn
    \/ SelectColumns
    \/ SelectedAddColumn
    \/ SelectedRemoveColumn

SpecSelect == Init /\ [][NextSelect]_vars

NextFactory == FromDataframe

\* the application holding any of the configurations
InitFactory ==
    /\ registry = ImportedRegistry
    /\ column = None
    /\ columns = None
    /\ selected = None
    /\ shared = FALSE
    /\ config \in DataFrames
    /\ result = [op |-> "import", args |-> <<>>, status |-> "ok", value |-> None]

SpecFactory == InitFactory /\ [][NextFactory]_vars

Next ==
    \/ NextType
    \/ NextColumn
    \/ NextTable
    \/ NextRegistry
    \/ NextSelect
    \/ NextFactory

Spec == Init /\ [][Next]_vars

----------------------------------------------------------------------------
(* Claims about TableSchema *)

IsTableGenerate == result.op = "TableSchema.generate"

HasNoColumns == IF columns = None THEN TRUE ELSE columns.items = <<>>

\* C1: generate(num_rows) raises the empty-schema error if and only if the
\* schema has no columns, its column list being unset or empty; it returns
\* no table then.
C1_EmptySchemaError ==
    IsTableGenerate => (result.status = "ValueError" <=> HasNoColumns)

IsFromDataframe == result.op = "TableSchema.from_dataframe"

\* every cell of the configuration is missing or a scalar (a text, a number)
ScalarCells ==
    \A i \in DOMAIN config.rows :
        \A k \in config.fields : config.rows[i][k].kind # "list"

\* C2: from_dataframe accepts every configuration whose records carry name
\* and datatype, the optional fields being given, missing or not carried at
\* all, and returns a schema of one column per record, in record order, each
\* with its record's name.
C2_AcceptsOptionalFields ==
    (IsFromDataframe /\ {"name", "datatype"} \subseteq config.fields /\ ScalarCells) =>
        /\ result.status = "ok"
        /\ Len(columns.items) = Len(config.rows)
        /\ \A i \in DOMAIN config.rows : columns.items[i].name = config.rows[i].name

\* the labels a domain cell gives: a text is one label, a list its elements
LabelsOf(cell) == IF cell.kind = "list" THEN Range(cell.items) ELSE { cell.s }

\* record i of the configuration is a category with a domain cell that is
\* not missing
IsCategoryWithDomain(i) ==
    /\ {"datatype", "domain"} \subseteq config.fields
    /\ config.rows[i].datatype.kind = "str"
    /\ lower(config.rows[i].datatype.chars) = Tag_category
    /\ ~isna(config.rows[i].domain)

\* C3: the column from_dataframe builds of a category record with a
\* non-empty domain cell has the deduplicated labels of that cell as its
\* label set.
C3_DomainIsLabelSet ==
    (IsFromDataframe /\ result.status = "ok") =>
        \A i \in DOMAIN config.rows :
            IsCategoryWithDomain(i) =>
                columns.items[i].datatype.categories = LabelsOf(config.rows[i].domain)

----------------------------------------------------------------------------
(* Claims about the Type variants and ColumnSchema *)

\* the last call constructed, or tried to construct, a Category variant:
\* CategoryType(...) itself, or ColumnSchema(name, <a case variant of
\* "category">, ...)
IsCategoryCall ==
    \/ result.op = "CategoryType"
    \/ /\ result.op = "ColumnSchema"
       /\ "datatype" \in DOMAIN result.args
       /\ result.args.datatype.kind = "str"
       /\ "chars" \in DOMAIN result.args.datatype
       /\ lower(result.args.datatype.chars) = Tag_category

\* the label set of the variant that call made
LabelsMade ==
    IF result.op = "CategoryType"
    THEN result.value.categories
    ELSE result.value.datatype.categories

CategoriesEmptyOrNone ==
    /\ "categories" \in DOMAIN result.args
    /\ \/ result.args.categories = None
       \/ Len(result.args.categories.items) = 0

\* C4, as claimed: constructing a Category variant raises the
\* invalid-parameter error whenever categories is empty, None or not supplied,
\* on the direct path and on the string-tag path.
C4_Original ==
    (IsCategoryCall /\ ("categories" \notin DOMAIN result.args \/ CategoriesEmptyOrNone))
        => result.status = "ValueError"

\* C4, as amended: constructing a Category variant raises the
\* invalid-parameter error exactly when categories is supplied as None or as
\* an empty list; with categories not supplied it succeeds with the label set
\* {A, B, C}, and with a non-empty list its label set is the set of that
\* list's labels.
C4_Amended ==
    IsCategoryCall =>
        IF "categories" \in DOMAIN result.args
        THEN /\ result.status = (IF CategoriesEmptyOrNone THEN "ValueError" ELSE "ok")
             /\ result.status = "ok" => LabelsMade = Range(result.args.categories.items)
        ELSE /\ result.status = "ok"
             /\ LabelsMade = {"A", "B", "C"}

C4_Witness ==
    /\ IsCategoryCall
    /\ result.op = "ColumnSchema"
    /\ "categories" \notin DOMAIN result.args
    /\ result.status = "ok"
    /\ column.datatype.categories = {"A", "B", "C"}

IsIntegerCall == result.op = "IntegerType"

GivenInt(k) == k \in DOMAIN result.args /\ result.args[k] # None
GivenNone(k) == k \in DOMAIN result.args /\ result.args[k] = None
NotGiven(k) == k \notin DOMAIN result.args

Width == result.value.max_value - result.value.min_value

\* C5, as claimed: an Integer variant constructed with exactly one bound
\* given, the other None or not supplied, has max_value - min_value = 100.
C5_Original ==
    /\ (IsIntegerCall /\ result.status = "ok" /\ GivenInt("min_value")
                      /\ (GivenNone("max_value") \/ NotGiven("max_value")))
            => Width = 100
    /\ (IsIntegerCall /\ result.status = "ok" /\ GivenInt("max_value")
                      /\ (GivenNone("min_value") \/ NotGiven("min_value")))
            => Width = 100

\* C5, as amended: with one bound given and the other passed as None,
\* construction succeeds with max_value = max(min_value + 100, 100), resp.
\* min_value = min(max_value - 100, 0): the width is at least 100, and is 100
\* exactly when the given min_value is >= 0, resp. the given max_value is
\* <= 100.  A bound that is not supplied at all is its parameter default
\* (min_value 0, max_value 100), whatever the other bound.
C5_Amended ==
    IsIntegerCall =>
        /\ (GivenInt("min_value") /\ GivenNone("max_value")) =>
              /\ result.status = "ok"
              /\ result.value.min_value = result.args.min_value.v
              /\ Width >= 100
              /\ Width = 100 <=> result.args.min_value.v >= 0
              /\ result.value.max_value \in {result.args.min_value.v + 100, 100}
        /\ (GivenInt("max_value") /\ GivenNone("min_value")) =>
              /\ result.status = "ok"
              /\ result.value.max_value = result.args.max_value.v
              /\ Width >= 100
              /\ Width = 100 <=> result.args.max_value.v <= 100
              /\ result.value.min_value \in {result.args.max_value.v - 100, 0}
        /\ (result.status = "ok" /\ GivenInt("min_value") /\ NotGiven("max_value")) =>
              /\ result.value.min_value = result.args.min_value.v
              /\ result.value.max_value = 100
        /\ (result.status = "ok" /\ GivenInt("max_value") /\ NotGiven("min_value")) =>
              /\ result.value.max_value = result.args.max_value.v
              /\ result.value.min_value = 0

C5_Witness ==
    /\ IsIntegerCall
    /\ result.status = "ok"
    /\ GivenInt("min_value") /\ GivenNone("max_value")
    /\ result.args.min_value.v < 0
    /\ Width > 100

\* C6: every Integer variant that is constructed has min_value < max_value,
\* whichever bounds were given, None or not supplied; when the bounds after
\* defaulting have min_value >= max_value the constructor raises the
\* invalid-parameter error, so no such variant reaches generation.
C6_BoundsOrdered ==
    IsIntegerCall =>
        /\ result.status \in {"ok", "ValueError"}
        /\ result.status = "ok" => result.value.min_value < result.value.max_value
        /\ (GivenInt("min_value") /\ GivenInt("max_value")
              /\ result.args.min_value.v >= result.args.max_value.v)
            => result.status = "ValueError"
        /\ (GivenInt("min_value") /\ GivenInt("max_value")
              /\ result.args.min_value.v < result.args.max_value.v)
            => /\ result.status = "ok"
               /\ result.value.min_value = result.args.min_value.v
               /\ result.value.max_value = result.args.max_value.v

C6_Witness ==
    /\ IsIntegerCall
    /\ GivenInt("min_value") /\ GivenInt("max_value")
    /\ result.args.min_value.v = result.args.max_value.v
    /\ result.status = "ValueError"

IsGenerate == result.op = "ColumnSchema.generate"

InBounds ==
    /\ result.value.kind = "int"
    /\ column.datatype.min_value <= result.value.v
    /\ result.value.v <= column.datatype.max_value

\* C7, as claimed: every non-null value generate() returns for an Integer
\* column with bounds [a, b] is an integer v with a <= v <= b.
C7_Original ==
    (IsGenerate /\ column.datatype.cls = "IntegerType" /\ result.value # None)
        => InBounds

\* C7, as amended: every non-null value generate() returns for an Integer
\* column with bounds [a, b] and no generator-rule override is an integer v
\* with a <= v <= b, for any completeness and any random draw.
C7_Amended ==
    (IsGenerate /\ column.datatype.cls = "IntegerType"
                /\ column.generator_rule = None /\ result.value # None)
        => InBounds

C7_Witness ==
    /\ IsGenerate
    /\ column.datatype.cls = "IntegerType"
    /\ column.generator_rule = None
    /\ column.completeness < Resolution
    /\ result.value = IntV(column.datatype.max_value)

\* C8: with completeness = 0.0 every generate() returns the null marker,
\* whatever the random sample (0.0 included), the datatype and the override.
C8_AllNull ==
    (IsGenerate /\ column.completeness = 0) => result.value = None

\* C9: a completeness that is 1.0, not given, None or NaN is stored as 1.0,
\* and with completeness = 1.0 generate() never takes the null path: for
\* every sample it returns the override rule's result if there is one, else
\* a result of the Type variant's rule.
C9_NeverNull ==
    /\ (/\ result.op = "ColumnSchema"
        /\ result.status = "ok"
        /\ \/ "completeness" \notin DOMAIN result.args
           \/ result.args.completeness \in {None, NaN, FloatV(Resolution)})
        => column.completeness = Resolution
    /\ (IsGenerate /\ column.completeness = Resolution) =>
          /\ result.path # "null"
          /\ column.generator_rule # None =>
                /\ result.path = "override"
                /\ result.value = column.generator_rule.returns
          /\ column.generator_rule = None =>
                /\ result.path = "datatype"
                /\ result.value \in generator_rule(column.datatype)

C9_Witness ==
    /\ IsGenerate
    /\ column.completeness = Resolution
    /\ result.args = Resolution - 1
    /\ result.path = "override"

\* C10: every ColumnSchema that is constructed has 0 <= completeness <= 1,
\* whatever completeness the constructor was given.
C10_CompletenessInRange ==
    column # None => (0 <= column.completeness /\ column.completeness <= Resolution)

----------------------------------------------------------------------------
(* Claims about the tables TableSchema.generate returns *)

\* the table that generate returned has exactly result.args records, each of
\* one field per column of the schema, every field an outcome of its column
TableOfSchema ==
    LET k == Len(columns.items)
        data == result.value.data
    IN  /\ result.status = "ok"
        /\ Len(data) = result.args
        /\ \A r \in DOMAIN data :
              /\ Len(data[r]) = k
              /\ \A i \in 1..k : data[r][i] \in Cell(columns.items[i])
        /\ result.value.columns = [i \in 1..k |-> columns.items[i].name]
        /\ result.calls = [r \in 1..result.args |-> [i \in 1..k |-> i]]

\* C11: for a schema of k >= 1 columns, generate(num_rows) returns a table of
\* exactly num_rows records of exactly k fields, labelled with the column
\* names in schema order, duplicates kept; every record is built by invoking
\* each column's generate() exactly once, in schema order; and generate leaves
\* the schema's column list as it was.
C11_GeneratesTable ==
    /\ [](IsTableGenerate /\ ~HasNoColumns => TableOfSchema)
    /\ [][result'.op = "TableSchema.generate" => columns' = columns]_vars

\* two rows were generated from two columns of one name
C11_Witness ==
    /\ IsTableGenerate
    /\ ~HasNoColumns
    /\ result.status = "ok"
    /\ result.args = 2
    /\ Len(columns.items) = 2
    /\ columns.items[1].name = columns.items[2].name
    /\ columns.items[1] # columns.items[2]

----------------------------------------------------------------------------
(* Claims about select_columns *)

IsSelect == result.op = "TableSchema.select_columns"

\* the columns of seq whose name is one of names, in the order of seq
NamedAmong(seq, names) ==
    LET Named(c) == c.name \in names
    IN  SelectSeq(seq, Named)

\* C12: select_columns(names), on a schema that has a column list, returns a
\* new schema whose columns are exactly the receiver's columns with a name in
\* names, all of them, in the receiver's order, and leaves the receiver's
\* list as it was; add_column and remove_column on the returned schema
\* afterwards leave the receiver's list as it was, and those on the receiver
\* leave the returned schema's list as it was.
C12_SelectIsFrame ==
    /\ [](IsSelect /\ columns # None =>
            /\ result.status = "ok"
            /\ selected = ListV(NamedAmong(columns.items, result.args)))
    /\ [][/\ result'.op \in {"TableSchema.select_columns", "selected.add_column",
                              "selected.remove_column"} => columns' = columns
          /\ result'.op \in {"TableSchema.add_column", "TableSchema.remove_column"}
                => selected' = selected]_vars

\* the second of two columns was selected, and a column then added to the
\* schema returned
C12_Witness ==
    /\ result.op = "selected.add_column"
    /\ columns # None
    /\ Len(columns.items) = 2
    /\ Len(selected.items) = 2
    /\ selected.items[1] = columns.items[2]
    /\ selected # columns

\* C16: select_columns(names) on a schema whose column list is unset does not
\* fail: it returns a new schema with an empty column list, and the
\* receiver's list stays unset.
C16_UnsetSelect ==
    (IsSelect /\ columns = None) =>
        /\ result.status = "ok"
        /\ selected = ListV(<<>>)

----------------------------------------------------------------------------
(* Claims about add_column and remove_column *)

\* the column a bare name stands for: a text of length 10, never null, with
\* no override
DefaultTextColumn(name) ==
    [kind |-> "ColumnSchema",
     name |-> name,
     datatype |-> [kind |-> "Datatype", cls |-> "StringType", length |-> DefaultLength],
     completeness |-> Resolution,
     generator_rule |-> None]

\* the reference list after add_column(c) on the list cols
ReferenceAdd(cols, c) ==
    ListV(Append(IF cols = None THEN <<>> ELSE cols.items,
                 IF c.kind = "str" THEN DefaultTextColumn(c) ELSE c))

\* the reference list after remove_column(name) on the list cols
ReferenceRemove(cols, name) ==
    LET Other(c) == c.name # name
    IN  IF cols = None THEN None ELSE ListV(SelectSeq(cols.items, Other))

\* C13: every add_column leaves the column list equal to the list before
\* (empty if unset) with the column appended at the end, a bare name being a
\* default text column of length 10 and completeness 1.0; every remove_column
\* leaves it equal to the list before without the entries of the given name,
\* the rest in order, and does nothing when no name matches or the list is
\* unset.  So after any sequence of the two the list is the reference
\* sequence.
C13_ListFollowsCalls ==
    [][/\ result'.op = "TableSchema.add_column"
            => columns' = ReferenceAdd(columns, result'.args)
       /\ result'.op = "TableSchema.remove_column"
            => columns' = ReferenceRemove(columns, result'.args)]_vars

\* a bare name was added as the second column
C13_Witness ==
    /\ result.op = "TableSchema.add_column"
    /\ result.args = StrV("Email")
    /\ Len(columns.items) = 2
    /\ columns.items[2] = DefaultTextColumn(StrV("Email"))
    /\ columns.items[1].name = StrV("Age")

----------------------------------------------------------------------------
(* Claims about the registry *)

\* the variant classes registered under a tag that is `name` but for the
\* case of its letters
RegisteredAnyCase(name) == { e[2] : e \in { x \in registry : lower(x[1]) = lower(name) } }

IsLookup == result.op = "Datatype.get_class"

IsTaggedColumn ==
    /\ result.op = "ColumnSchema"
    /\ "datatype" \in DOMAIN result.args
    /\ result.args.datatype.kind = "str"

\* C14: tags are registered and looked up without regard to letter case:
\* whatever the case a tag was registered in, Datatype.get_class and
\* ColumnSchema(name, tag) given any case variant of it resolve to the class
\* registered under it; they raise the unknown-type error only when no case
\* variant of the tag is registered, and it is raised when the column is
\* constructed, never when a value is generated.
C14_CaseInsensitive ==
    /\ IsLookup =>
          IF RegisteredAnyCase(result.args.chars) # {}
          THEN /\ result.status = "ok"
               /\ result.value.s \in RegisteredAnyCase(result.args.chars)
          ELSE result.status = "ValueError"
    /\ IsTaggedColumn =>
          IF RegisteredAnyCase(result.args.datatype.chars) # {}
          THEN /\ result.status = "ok"
               /\ column.datatype.cls \in RegisteredAnyCase(result.args.datatype.chars)
          ELSE result.status = "ValueError"
    /\ result.op = "ColumnSchema.generate" => result.status # "ValueError"

----------------------------------------------------------------------------
(* Claims about the order of ColumnSchema.generate *)

\* C15: in generate() the null decision comes first, on exactly one random
\* sample: when completeness < 1.0 and the sample exceeds completeness, null
\* is returned and neither the override rule nor the variant's rule is
\* invoked; otherwise, with an override rule, its result is returned and the
\* variant's rule is not invoked; the variant's rule is invoked only when
\* there is no override.
C15_NullDecisionFirst ==
    IsGenerate =>
        IF column.completeness < Resolution /\ result.args > column.completeness
        THEN /\ result.value = None
             /\ result.calls = <<"random">>
        ELSE IF column.generator_rule # None
        THEN /\ result.value = column.generator_rule.returns
             /\ result.calls = <<"random", "override">>
        ELSE /\ result.value \in generator_rule(column.datatype)
             /\ result.calls = <<"random", "datatype">>

\* a column with an override and completeness 1/Resolution returned null
C15_Witness ==
    /\ IsGenerate
    /\ column.completeness = 1
    /\ column.generator_rule # None
    /\ result.value = None
    /\ result.calls = <<"random">>

====
